---- MODULE Spec2Model ----
(***************************************************************************)
(* A model of taming/models/vqgan.py: the checkpoint loader               *)
(* (download_pretrained_from_url, load_state_dict,                        *)
(* convert_to_custom_text_state_dict, resize_pos_embed,                   *)
(* VQModel.init_from_ct_ckpt), the forward pass of VQModel and            *)
(* VQModel.configure_optimizers.                                          *)
(*                                                                         *)
(* Python strings are sequences of one-character strings, so that          *)
(* startswith, split, slicing and the substring test are computed as       *)
(* Python computes them.                                                   *)
(***************************************************************************)
EXTENDS Integers, Sequences, FiniteSets, TLC

VARIABLES
    \* ---- download_pretrained_from_url
    url,        \* the url argument
    cacheDir,   \* what is at cache_dir: "absent", "dir" or "file"
    entry,      \* what is at download_target: [kind, content]
    partial,    \* the file at download_target was left by a download that stopped before its last chunk
    pc,         \* position of the call in progress ("idle" between calls)
    cur,        \* bookkeeping of the call in progress
    log,        \* the last two finished calls, the older first
    \* ---- VQModel.init_from_ct_ckpt
    ckpt,       \* what torch.load gives: [wrapped, sd]
    hasPosAttr, \* hasattr(model, 'positional_embedding')
    posEmbedWidth, \* the pos_embed_width argument
    loaded,     \* what load_state_dict returned
    sd,         \* the local state_dict
    ctpc,       \* position in init_from_ct_ckpt
    \* ---- convert_to_custom_text_state_dict
    mig,        \* a state dict and what successive migrations make of it
    \* ---- VQModel.forward
    cfg,        \* embed_dim and the latent grid of the encoder for the image given
    env,        \* the local tensors of forward, by name
    stages,     \* the modules called so far, in order
    out,        \* what forward returned
    fwpc,       \* position in forward
    \* ---- VQModel.configure_optimizers
    params,     \* self.named_parameters(): [name, requires_grad], in order
    visited,    \* parameters the loop has been through
    opt_vq_params,
    opt_disc_params,
    optimizers, \* the optimizers returned, each with the parameters it updates
    oppc        \* position in configure_optimizers

dlVars == <<url, cacheDir, entry, partial, pc, cur, log>>
ctVars == <<ckpt, hasPosAttr, posEmbedWidth, loaded, sd, ctpc>>
cvVars == <<mig>>
fwVars == <<cfg, env, stages, out, fwpc>>
opVars == <<params, visited, opt_vq_params, opt_disc_params, optimizers, oppc>>

vars == <<dlVars, ctVars, cvVars, fwVars, opVars>>

\* the download leaves all of this alone; ctpc it moves when init_from_ct_ckpt made the call
nonDL == <<ckpt, hasPosAttr, posEmbedWidth, loaded, sd, cvVars, fwVars, opVars>>
nonCT == <<dlVars, cvVars, fwVars, opVars>>
nonCV == <<dlVars, ctVars, fwVars, opVars>>
nonFW == <<dlVars, ctVars, cvVars, opVars>>
nonOP == <<dlVars, ctVars, cvVars, fwVars>>

----------------------------------------------------------------------------
(* Bounds                                                                  *)

\* longest file content, in chunks of source.read(8192)
MaxChunks == 2
\* entries of a checkpoint's state dict
MaxKeys == 3
\* widest position embedding, stored or asked for
MaxWidth == 3
\* migrations applied one after the other
MaxMigrations == 2
\* examples in a batch
MaxBatch == 2
\* parameters of the model
MaxParams == 3

----------------------------------------------------------------------------
(* Python str operations                                                   *)

StartsWith(s, p) == Len(p) <= Len(s) /\ SubSeq(s, 1, Len(p)) = p

\* p in s
Contains(s, p) ==
    \E i \in 1..(Len(s) - Len(p) + 1) : SubSeq(s, i, i + Len(p) - 1) = p

\* s[n:]
DropFirst(s, n) == IF n >= Len(s) THEN <<>> ELSE SubSeq(s, n + 1, Len(s))

\* index of the last c in s, 0 when there is none
RFind(s, c) ==
    LET hits == {i \in 1..Len(s) : s[i] = c}
    IN  IF hits = {} THEN 0 ELSE CHOOSE i \in hits : \A j \in hits : j <= i

\* index of the first c in s, 0 when there is none
Find(s, c) ==
    LET hits == {i \in 1..Len(s) : s[i] = c}
    IN  IF hits = {} THEN 0 ELSE CHOOSE i \in hits : \A j \in hits : i <= j

\* s.split(c): the pieces between the occurrences of c
RECURSIVE Split(_, _)
Split(s, c) ==
    LET i == Find(s, c)
    IN  IF i = 0 THEN <<s>>
        ELSE <<SubSeq(s, 1, i - 1)>> \o Split(DropFirst(s, i), c)

\* os.path.basename(p): what follows the last "/"
Basename(p) == DropFirst(p, RFind(p, "/"))

\* os.path.splitext(name)[0] of a name without "/": cut at the last ".",
\* unless only dots precede it
SplitextRoot(name) ==
    LET dot == RFind(name, ".")
    IN  IF dot > 0 /\ \E i \in 1..(dot - 1) : name[i] # "."
        THEN SubSeq(name, 1, dot - 1)
        ELSE name

----------------------------------------------------------------------------
(* File contents and their digests                                         *)

Chunks == {1, 2}

Contents == UNION {[1..n -> Chunks] : n \in 0..MaxChunks}

\* the checkpoint the publisher released, the content whose digest the urls
\* name: a response of the greatest length, so that no response continues it
Genuine == [i \in 1..MaxChunks |-> 1]

HexDigits == <<"0","1","2","3","4","5","6","7","8","9","a","b","c","d","e","f">>

RECURSIVE ContentCode(_)
ContentCode(c) ==
    IF c = <<>> THEN 0 ELSE 3 * ContentCode(SubSeq(c, 1, Len(c) - 1)) + c[Len(c)]

\* hashlib.sha256(content).hexdigest(): a stand-in digest of four hex digits
\* that, like SHA-256 on real files, gives different contents different
\* digests, also in their first two digits
Sha256Hex(c) ==
    LET hi == ContentCode(c) + 16
        lo == (7 * ContentCode(c) + 3) % 256
    IN  <<HexDigits[(hi \div 16) + 1], HexDigits[(hi % 16) + 1],
          HexDigits[(lo \div 16) + 1], HexDigits[(lo % 16) + 1]>>

----------------------------------------------------------------------------
(* download_pretrained_from_url                                            *)

OpenAIPublic == <<"o","p","e","n","a","i","p","u","b","l","i","c">>
MLFoundations == <<"m","l","f","o","u","n","d","a","t","i","o","n","s">>

\* line 164: the url init_from_ct_ckpt downloads from, the hash a filename
\* suffix (the first digits of the digest only); the stand-in digest of the
\* released checkpoint is in the place of 46683a32
CtUrl ==
    <<"h",":","/","/","g","i","t","h","u","b",".","c","o","m","/","m","l","f","o","u","n","d","a","t","i","o","n","s","/","o","p","e","n","_","c","l","i","p","/","r","e","l","e","a","s","e","s","/","d","o","w","n","l","o","a","d","/","v","0",".","2","-","w","e","i","g","h","t","s","/","v","i","t","_","b","_","3","2","-","q","u","i","c","k","g","e","l","u","-","l","a","i","o","n","4","0","0","m","_","e","3","2","-">>
        \o SubSeq(Sha256Hex(Genuine), 1, 2) \o <<".","p","t">>

\* the urls tried: the hash as a path segment, the url of line 164, no hash
\* at all, a publisher url that carries no hash, and a url without a file name
Urls ==
    { <<"h",":","/","/","o","p","e","n","a","i","p","u","b","l","i","c","/">>
          \o Sha256Hex(Genuine) \o <<"/","m",".","p","t">>,
      CtUrl,
      <<"h",":","/","/","e","x","a","m","p","l","e","/","m",".","p","t">>,
      <<"h",":","/","/","o","p","e","n","a","i","p","u","b","l","i","c","/","/","m",".","p","t">>,
      <<"h",":","/","/","m","l","f","o","u","n","d","a","t","i","o","n","s","/">> }

\* lines 33-38: the expected digest the url names, <<>> when it names none
ExpectedSha256(u) ==
    IF Contains(u, OpenAIPublic)
    THEN LET parts == Split(u, "/") IN parts[Len(parts) - 1]
    ELSE IF Contains(u, MLFoundations)
    THEN LET parts == Split(SplitextRoot(Basename(u)), "-") IN parts[Len(parts)]
    ELSE <<>>

\* hashlib.sha256(open(download_target, "rb").read()).hexdigest().startswith(expected_sha256)
HashMatches(e, expected) == StartsWith(Sha256Hex(e.content), expected)

\* NotRegularFile with the check of line 42 left out
NotRegularFileUnchecked(e) == FALSE

\* line 42: os.path.exists(download_target) and not os.path.isfile(download_target)
NotRegularFile(e) == e.kind # "none" /\ e.kind # "file"

\* CacheHit that accepts a cached file only when a digest can vouch for it
CacheHitOnlyHashed(u, e) ==
    /\ e.kind = "file"
    /\ ExpectedSha256(u) # <<>>
    /\ HashMatches(e, ExpectedSha256(u))

\* lines 45-52: the file in the cache is returned without a download
CacheHit(u, e) ==
    /\ e.kind = "file"
    /\ IF ExpectedSha256(u) # <<>> THEN HashMatches(e, ExpectedSha256(u)) ELSE TRUE

\* VerifyFails with the check after the download left out
VerifyFailsNever(u, e) == FALSE

\* line 64: the downloaded file is rejected
VerifyFails(u, e) ==
    ExpectedSha256(u) # <<>> /\ ~HashMatches(e, ExpectedSha256(u))

NoFile == [kind |-> "none", content |-> <<>>]
Directory == [kind |-> "dir", content |-> <<>>]
FileOf(c) == [kind |-> "file", content |-> c]

Entries == {NoFile, Directory} \cup {FileOf(c) : c \in Contents}

\* what is kept of a call: what it found at download_target (the kind of
\* entry, and whether the digest of its content starts with the digest the
\* url names), whether that was left by a stopped download, whether the url
\* was opened and the target opened for writing, and how the call ended
NewCall == [kind0 |-> "none", match0 |-> FALSE, partial0 |-> FALSE, opened |-> FALSE,
            wrote |-> FALSE, outcome |-> "running"]

\* the place in log of a call that was not made
NoCall == [NewCall EXCEPT !.outcome = "none"]

DLInit ==
    /\ url \in Urls
    /\ cacheDir \in {"absent", "dir", "file"}
    /\ entry \in Entries
    \* nothing is below a cache_dir that is no directory; a url without a
    \* file name makes download_target the cache directory itself
    /\ cacheDir # "dir" => entry = NoFile
    /\ (cacheDir = "dir" /\ Basename(url) = <<>>) => entry = Directory
    /\ partial = FALSE
    /\ pc = "idle"
    /\ cur = NewCall
    /\ log = <<NoCall, NoCall>>

\* no call of download_pretrained_from_url is made
DLIdle ==
    /\ url = <<>>
    /\ cacheDir = "absent"
    /\ entry = NoFile
    /\ partial = FALSE
    /\ pc = "off"
    /\ cur = NewCall
    /\ log = <<NoCall, NoCall>>

\* the call ends: it returns download_target or raises; when line 166 made
\* the call, init_from_ct_ckpt goes on to line 167 or the exception leaves it
Finish(outcome, c) ==
    /\ pc' = "idle"
    /\ log' = <<log[Len(log)], [c EXCEPT !.outcome = outcome]>>
    /\ cur' = NewCall
    /\ ctpc' = IF ctpc # "download" THEN ctpc
               ELSE IF outcome = "returned" THEN "start"
               ELSE "download_raised"

\* lines 30-52: makedirs, the target's path, the checks of what is cached
Call ==
    /\ pc = "idle"
    \* called on its own, or by line 166
    /\ ctpc \in {"off", "download"}
    /\ LET target == IF Basename(url) = <<>> THEN Directory ELSE entry
           found == IF cacheDir = "file" THEN NoFile ELSE target
           c == [NewCall EXCEPT !.kind0 = found.kind,
                                !.match0 = /\ found.kind = "file"
                                           /\ StartsWith(Sha256Hex(found.content),
                                                         ExpectedSha256(url)),
                                !.partial0 = partial]
       IN  IF cacheDir = "file"
           THEN \* os.makedirs raises FileExistsError
                /\ Finish("raised", c)
                /\ UNCHANGED <<url, cacheDir, entry, partial>>
           ELSE /\ cacheDir' = "dir"
                /\ entry' = target
                /\ UNCHANGED <<url, partial>>
                /\ IF NotRegularFile(target)
                   THEN Finish("raised", c)
                   ELSE IF CacheHit(url, target)
                   THEN Finish("returned", c)
                   ELSE /\ pc' = "urlopen"
                        /\ cur' = c
                        /\ UNCHANGED <<log, ctpc>>
    /\ UNCHANGED nonDL

\* line 54: urllib.request.urlopen(url) answers
UrlOpen ==
    /\ pc = "urlopen"
    /\ cur' = [cur EXCEPT !.opened = TRUE]
    /\ pc' = "openfile"
    /\ UNCHANGED <<url, cacheDir, entry, partial, log, ctpc>>
    /\ UNCHANGED nonDL

\* line 54: urllib.request.urlopen(url) raises
UrlOpenFails ==
    /\ pc = "urlopen"
    /\ Finish("raised", [cur EXCEPT !.opened = TRUE])
    /\ UNCHANGED <<url, cacheDir, entry, partial>>
    /\ UNCHANGED nonDL

\* line 54: open(download_target, "wb") truncates the file, or raises on a
\* path that is no regular file
OpenForWrite ==
    /\ pc = "openfile"
    /\ IF entry.kind = "dir"
       THEN /\ Finish("raised", cur)
            /\ UNCHANGED <<url, cacheDir, entry, partial>>
       ELSE /\ entry' = FileOf(<<>>)
            /\ partial' = FALSE
            /\ cur' = [cur EXCEPT !.wrote = TRUE]
            /\ pc' = "tqdm"
            /\ UNCHANGED <<url, cacheDir, log, ctpc>>
    /\ UNCHANGED nonDL

\* line 55: the progress bar is built from the Content-Length header
TqdmStart ==
    /\ pc = "tqdm"
    /\ pc' = "loop"
    /\ UNCHANGED <<url, cacheDir, entry, partial, cur, log, ctpc>>
    /\ UNCHANGED nonDL

\* line 55: the response has no Content-Length header, int(None) raises;
\* the file stays empty, short of what the response held unless that was empty
TqdmFails ==
    /\ pc = "tqdm"
    /\ partial' \in BOOLEAN
    /\ Finish("raised", cur)
    /\ UNCHANGED <<url, cacheDir, entry>>
    /\ UNCHANGED nonDL

\* lines 57-62: one chunk is read and written
WriteChunk ==
    /\ pc = "loop"
    /\ Len(entry.content) < MaxChunks
    /\ \E chunk \in Chunks : entry' = FileOf(Append(entry.content, chunk))
    /\ UNCHANGED <<url, cacheDir, partial, pc, cur, log, ctpc>>
    /\ UNCHANGED nonDL

\* lines 57-59: source.read returns nothing more, the loop ends
EndOfStream ==
    /\ pc = "loop"
    /\ pc' = "verify"
    /\ UNCHANGED <<url, cacheDir, entry, partial, cur, log, ctpc>>
    /\ UNCHANGED nonDL

\* lines 56-62: the download is interrupted (the connection drops, the
\* process is stopped); what was written stays at download_target, short
\* of the response when chunks were still to come
Interrupt ==
    /\ pc = "loop"
    /\ \E more \in BOOLEAN :
          /\ more => Len(entry.content) < MaxChunks
          /\ partial' = more
    /\ Finish("raised", cur)
    /\ UNCHANGED <<url, cacheDir, entry>>
    /\ UNCHANGED nonDL

\* lines 64-67: the downloaded file is verified
Verify ==
    /\ pc = "verify"
    /\ IF VerifyFails(url, entry)
       THEN Finish("raised", cur)
       ELSE Finish("returned", cur)
    /\ UNCHANGED <<url, cacheDir, entry, partial>>
    /\ UNCHANGED nonDL

DLNext ==
    \/ Call
    \/ UrlOpen
    \/ UrlOpenFails
    \/ OpenForWrite
    \/ TqdmStart
    \/ TqdmFails
    \/ WriteChunk
    \/ EndOfStream
    \/ Interrupt
    \/ Verify

----------------------------------------------------------------------------
(* Python dicts: the entries [k, v] in insertion order, keys distinct       *)

Keys(d) == {d[i].k : i \in DOMAIN d}

\* k in d
HasKey(d, k) == k \in Keys(d)

\* d[k]
Get(d, k) == d[CHOOSE i \in DOMAIN d : d[i].k = k].v

\* d[k] = v: an existing key keeps its place and takes the new value
DictSet(d, k, v) ==
    IF HasKey(d, k)
    THEN [i \in DOMAIN d |-> IF d[i].k = k THEN [k |-> k, v |-> v] ELSE d[i]]
    ELSE Append(d, [k |-> k, v |-> v])

\* the key orders of the dicts whose keys are drawn from pool
KeySeqsOver(pool) ==
    LET keySeqs == UNION {[1..n -> pool] : n \in 0..MaxKeys}
    IN  {q \in keySeqs : \A i, j \in DOMAIN q : i # j => q[i] # q[j]}

----------------------------------------------------------------------------
(* load_state_dict                                                         *)

Module == <<"m","o","d","u","l","e">>
StateDictKey == <<"s","t","a","t","e","_","d","i","c","t">>
TextProjection == <<"t","e","x","t","_","p","r","o","j","e","c","t","i","o","n">>
PositionalEmbedding == <<"p","o","s","i","t","i","o","n","a","l","_","e","m","b","e","d","d","i","n","g">>
TokenEmbedding == <<"t","o","k","e","n","_","e","m","b","e","d","d","i","n","g">>
Transformer == <<"t","r","a","n","s","f","o","r","m","e","r">>
LnFinal == <<"l","n","_","f","i","n","a","l">>
TextDot == <<"t","e","x","t",".">>

\* line 76: the characters k[7:] drops
StripLen == 7

\* line 76: {k[7:]: v for k, v in state_dict.items()}, the first n items
RECURSIVE StripItems(_, _)
StripItems(d, n) ==
    IF n = 0 THEN <<>>
    ELSE DictSet(StripItems(d, n - 1), DropFirst(d[n].k, StripLen), d[n].v)

\* lines 71-74: the state dict inside what torch.load returned
Unwrap(checkpoint) ==
    IF HasKey(checkpoint, StateDictKey) THEN Get(checkpoint, StateDictKey) ELSE checkpoint

\* lines 75-77: the prefix is looked for in the first key, and seven
\* characters are cut from every key; next(iter(...)) of an empty dict raises
StripModulePrefix(state_dict) ==
    IF state_dict = <<>> THEN [raised |-> TRUE, sd |-> <<>>]
    ELSE IF StartsWith(state_dict[1].k, Module)
    THEN [raised |-> FALSE, sd |-> StripItems(state_dict, Len(state_dict))]
    ELSE [raised |-> FALSE, sd |-> state_dict]

\* lines 69-77
LoadStateDict(checkpoint) == StripModulePrefix(Unwrap(checkpoint))

----------------------------------------------------------------------------
(* convert_to_custom_text_state_dict                                       *)

\* lines 85-91
TextTowerPrefixes ==
    <<TextProjection, PositionalEmbedding, TokenEmbedding, Transformer, LnFinal>>

\* MigratedKey that renames the keys equal to a text tower name only
MigratedKeyExact(k) ==
    IF \E i \in DOMAIN TextTowerPrefixes : k = TextTowerPrefixes[i]
    THEN TextDot \o k ELSE k

\* lines 85-92: the key an entry is stored under
MigratedKey(k) ==
    IF \E i \in DOMAIN TextTowerPrefixes : StartsWith(k, TextTowerPrefixes[i])
    THEN TextDot \o k ELSE k

\* lines 83-93: new_state_dict after the first n items
RECURSIVE MigrateItems(_, _)
MigrateItems(d, n) ==
    IF n = 0 THEN <<>>
    ELSE DictSet(MigrateItems(d, n - 1), MigratedKey(d[n].k), d[n].v)

\* lines 80-95
ConvertToCustomTextStateDict(state_dict) ==
    IF HasKey(state_dict, TextProjection)
    THEN MigrateItems(state_dict, Len(state_dict))
    ELSE state_dict

\* the state dicts migrated: legacy names, names that only start like one,
\* names of other towers, and a name already in the namespaced layout
ConvKeyPool ==
    { TextProjection,
      PositionalEmbedding,
      Transformer \o <<".","w">>,
      TextDot \o Transformer \o <<".","w">>,
      TextProjection \o <<"_","b">>,
      LnFinal \o <<".","w">>,
      <<"v","i","s","u","a","l",".","w">>,
      <<"l","o","g","i","t","_","s","c","a","l","e">> }

\* the i-th entry holds a tensor of its own
IdTensor(i) == [id |-> i, shape |-> <<>>]

CVInit ==
    mig \in { <<[i \in DOMAIN ks |-> [k |-> ks[i], v |-> IdTensor(i)]]>> :
                ks \in KeySeqsOver(ConvKeyPool) }

CVIdle == mig = <<>>

\* convert_to_custom_text_state_dict is applied to the latest state dict
Migrate ==
    /\ mig # <<>>
    /\ Len(mig) <= MaxMigrations
    /\ mig' = Append(mig, ConvertToCustomTextStateDict(mig[Len(mig)]))
    /\ UNCHANGED nonCV

CVNext == Migrate

----------------------------------------------------------------------------
(* resize_pos_embed and VQModel.init_from_ct_ckpt                          *)

\* tensor shapes: unsqueeze(0), permute(0, 2, 1), F.interpolate(size=w), squeeze()
Unsqueeze0(shape) == <<1>> \o shape
Permute021(shape) == <<shape[1], shape[3], shape[2]>>
Interpolate(shape, w) == <<shape[1], shape[2], w>>
Squeeze(shape) == SelectSeq(shape, LAMBDA n : n # 1)

\* lines 97-103: get returns None for a missing key and None.unsqueeze
\* raises; permute(0, 2, 1) raises unless the tensor has two dimensions
ResizePosEmbed(state_dict, pos_embed_width) ==
    IF ~HasKey(state_dict, PositionalEmbedding)
    THEN [raised |-> TRUE, sd |-> state_dict]
    ELSE LET pos_emb == Get(state_dict, PositionalEmbedding)
         IN  IF Len(pos_emb.shape) # 2
             THEN [raised |-> TRUE, sd |-> state_dict]
             ELSE [raised |-> FALSE,
                   sd |-> DictSet(state_dict, PositionalEmbedding,
                            [id |-> pos_emb.id,
                             shape |-> Squeeze(Permute021(Interpolate(
                                          Permute021(Unsqueeze0(pos_emb.shape)),
                                          pos_embed_width)))])]

\* line 169: the old format is detected
OldFormatDetected(state_dict, has_attr) ==
    HasKey(state_dict, PositionalEmbedding) /\ ~has_attr

\* the checkpoints loaded: flat and namespaced layouts, keys saved under
\* `module.`, and a first key that only starts like that prefix
CtKeyPool ==
    { PositionalEmbedding,
      TextProjection,
      TextDot \o PositionalEmbedding,
      Module \o <<".">> \o PositionalEmbedding,
      Module \o <<".">> \o TextProjection,
      Module \o <<"s",".","w">>,
      <<"v","i","s","u","a","l",".","w">> }

\* the key names a position embedding
IsPosEmbedKey(k) ==
    Len(k) >= Len(PositionalEmbedding)
    /\ DropFirst(k, Len(k) - Len(PositionalEmbedding)) = PositionalEmbedding

\* a state dict with the keys ks, its position embeddings of w rows
StateDictOf(ks, w, dim) ==
    [i \in DOMAIN ks |->
        [k |-> ks[i],
         v |-> [id |-> i,
                shape |-> IF IsPosEmbedKey(ks[i]) THEN <<w, dim>> ELSE <<dim>>]]]

\* line 70: what torch.load may give for the checkpoint file, a state dict
\* or a dict that wraps one
Checkpoints ==
    UNION { {StateDictOf(ks, w, dim),
             <<[k |-> StateDictKey, v |-> StateDictOf(ks, w, dim)]>>} :
            ks \in KeySeqsOver(CtKeyPool), w \in 2..MaxWidth, dim \in 2..3 }

\* init_from_ct_ckpt is called; line 166 is about to call the download
CTInit ==
    /\ ckpt = <<>>
    /\ hasPosAttr \in BOOLEAN
    /\ posEmbedWidth \in 2..MaxWidth
    /\ loaded = <<>>
    /\ sd = <<>>
    /\ ctpc = "download"

CTIdle ==
    /\ ckpt = <<>>
    /\ hasPosAttr = FALSE
    /\ posEmbedWidth = 1
    /\ loaded = <<>>
    /\ sd = <<>>
    /\ ctpc = "off"

\* line 167: state_dict = load_state_dict(checkpoint_path)
CtLoadStateDict ==
    /\ ctpc = "start"
    /\ \E checkpoint \in Checkpoints :
          /\ ckpt' = checkpoint
          /\ LET r == LoadStateDict(checkpoint)
             IN  IF r.raised
                 THEN /\ ctpc' = "load_raised"
                      /\ UNCHANGED <<loaded, sd>>
                 ELSE /\ loaded' = r.sd
                      /\ sd' = r.sd
                      /\ ctpc' = "detect"
    /\ UNCHANGED <<hasPosAttr, posEmbedWidth>>
    /\ UNCHANGED nonCT

\* lines 169-170: an old format checkpoint is migrated
CtConvert ==
    /\ ctpc = "detect"
    /\ sd' = IF OldFormatDetected(sd, hasPosAttr)
             THEN ConvertToCustomTextStateDict(sd) ELSE sd
    /\ ctpc' = "resize"
    /\ UNCHANGED <<ckpt, hasPosAttr, posEmbedWidth, loaded>>
    /\ UNCHANGED nonCT

\* line 171: resize_pos_embed(state_dict, pos_embed_width)
CtResize ==
    /\ ctpc = "resize"
    /\ LET r == ResizePosEmbed(sd, posEmbedWidth)
       IN  IF r.raised
           THEN /\ ctpc' = "resize_raised"
                /\ UNCHANGED sd
           ELSE /\ sd' = r.sd
                /\ ctpc' = "load"
    /\ UNCHANGED <<ckpt, hasPosAttr, posEmbedWidth, loaded>>
    /\ UNCHANGED nonCT

\* lines 172-173: model.load_state_dict(state_dict, strict=False)
CtModelLoad ==
    /\ ctpc = "load"
    /\ ctpc' = "done"
    /\ UNCHANGED <<ckpt, hasPosAttr, posEmbedWidth, loaded, sd>>
    /\ UNCHANGED nonCT

\* line 166 is the call of download_pretrained_from_url, step by step
CTNext ==
    \/ DLNext
    \/ CtLoadStateDict
    \/ CtConvert
    \/ CtResize
    \/ CtModelLoad

----------------------------------------------------------------------------
(* VQModel.forward                                                         *)

\* a tensor: its name in forward, the tensors it was computed from, its shape
Tensor(name, from, shape) == [name |-> name, from |-> from, shape |-> shape]
None == Tensor("None", <<>>, <<>>)

\* line 142: d_model of quant_tf
DModel == 256
\* line 211: the side of the grid text_decode reshapes to
TextGridSide == 16

LocalNames ==
    {"image", "text", "valid_lens", "image_hidden", "image_quant", "image_quant_loss",
     "text_hidden", "mask", "text_quant", "text_quant_loss",
     "image_coquant", "text_coquant", "i_coquant_loss", "t_coquant_loss",
     "i2i_rec", "i2t_rec", "t2t_rec", "t2i_rec"}

\* the sides of the latent grid H' x W' the encoder gives, the lengths of
\* the tokenized text, and the widths of the codebook
GridSides == {4, 8, 16}
TextLengths == {77, 256}
EmbedDims == {128, 256}

\* x.permute(p)
Permute(shape, p) == [i \in DOMAIN p |-> shape[p[i] + 1]]

\* Encoder and quant_conv: the image as a grid of embed_dim features
EncoderShape(c, image) == <<image.shape[1], c.embed_dim, c.gh, c.gw>>

\* TextTransformer and quant_linear: one embed_dim feature per token
TextTransformerShape(c, text) == <<text.shape[1], text.shape[2], c.embed_dim>>

\* lines 177-181: encode gives image_quant, image_quant_loss and image_hidden
Encode(c, e) ==
    LET hidden == Tensor("image_hidden", <<"image">>, EncoderShape(c, e["image"]))
    IN  [e EXCEPT !["image_hidden"] = hidden,
                  !["image_quant"] = Tensor("image_quant", <<"image_hidden">>, hidden.shape),
                  !["image_quant_loss"] = Tensor("image_quant_loss", <<"image_hidden">>, <<>>)]

\* line 202 with tgt and memory exchanged
QuantTfSwapped(image_seq, text_seq) == text_seq

\* line 202: quant_tf(tgt=image_hidden, memory=text): nn.TransformerDecoder
\* gives one output per position of tgt
QuantTf(image_seq, text_seq) == image_seq

\* lines 198-202: the text latent, as [bs, positions, d]
TextLatentShape(c, e) ==
    LET image_seq == Permute(<<e["image_hidden"].shape[1], e["image_hidden"].shape[2],
                               e["image_hidden"].shape[3] * e["image_hidden"].shape[4]>>,
                             <<2, 0, 1>>)
        text_seq == Permute(TextTransformerShape(c, e["text"]), <<1, 0, 2>>)
    IN  Permute(QuantTf(image_seq, text_seq), <<1, 0, 2>>)

\* line 202: the layers of quant_tf take features of size d_model only
TextEncodeRaises(c) == c.embed_dim # DModel

\* lines 197-204: text_encode gives text_quant, text_quant_loss, text and mask
TextEncode(c, e) ==
    LET shape == TextLatentShape(c, e)
    IN  [e EXCEPT !["mask"] = Tensor("mask", <<"text", "valid_lens">>, <<>>),
                  !["text_hidden"] = Tensor("text_hidden", <<"text", "valid_lens", "image_hidden">>, shape),
                  !["text_quant"] = Tensor("text_quant", <<"text_hidden">>, shape),
                  !["text_quant_loss"] = Tensor("text_quant_loss", <<"text_hidden">>, <<>>)]

\* line 224: Cluster gives a co-quantized tensor shaped like each input, and two losses
ClusterCall(e) ==
    LET from == <<"image_quant", "text_quant", "mask", "valid_lens">>
    IN  [e EXCEPT !["image_coquant"] = Tensor("image_coquant", from, e["image_quant"].shape),
                  !["text_coquant"] = Tensor("text_coquant", from, e["text_quant"].shape),
                  !["i_coquant_loss"] = Tensor("i_coquant_loss", from, <<>>),
                  !["t_coquant_loss"] = Tensor("t_coquant_loss", from, <<>>)]

\* line 226: what forward hands to decode
DecodeArg(e) == e["image_coquant"]

\* line 227 decoding the co-quantized text instead
TextDecodeArgCoquant(e) == e["text_coquant"]

\* line 227: what forward hands to text_decode
TextDecodeArg(e) == e["text_quant"]

\* Decoder and Text_Decoder: an image over the latent grid given (in units
\* of the decoder's upsampling), and logits for every position of the grid
DecoderShape(grid) == <<grid[1], 3, grid[3], grid[4]>>
TextDecoderShape(grid) == <<grid[1], grid[3] * grid[4]>>

\* lines 183-189: decode gives i2i_rec and i2t_rec
Decode(e, image_coquant) ==
    [e EXCEPT !["i2i_rec"] = Tensor("i2i_rec", <<image_coquant.name>>,
                                    DecoderShape(image_coquant.shape)),
              !["i2t_rec"] = Tensor("i2t_rec", <<image_coquant.name>>,
                                    TextDecoderShape(image_coquant.shape))]

\* lines 207-211: text_quant as [b, d, l]; reshape(b, d, 16, 16) raises
\* unless l is 16 * 16
TextDecodeRaises(text_quant) ==
    Permute(text_quant.shape, <<0, 2, 1>>)[3] # TextGridSide * TextGridSide

\* lines 206-218: text_decode gives t2t_rec and t2i_rec
TextDecode(e, text_quant) ==
    LET bdl == Permute(text_quant.shape, <<0, 2, 1>>)
        grid == <<bdl[1], bdl[2], TextGridSide, TextGridSide>>
    IN  [e EXCEPT !["t2i_rec"] = Tensor("t2i_rec", <<text_quant.name>>, DecoderShape(grid)),
                  !["t2t_rec"] = Tensor("t2t_rec", <<text_quant.name>>, TextDecoderShape(grid))]

\* line 228: the tuple forward returns
Returned(e) ==
    <<e["i2i_rec"], e["i2t_rec"], e["image_quant_loss"], e["t2t_rec"], e["t2i_rec"],
      e["text_quant_loss"], e["i_coquant_loss"], e["t_coquant_loss"]>>

FWInit ==
    /\ cfg \in [embed_dim : EmbedDims, gh : GridSides, gw : GridSides]
    /\ \E b \in 1..MaxBatch, l \in TextLengths :
          env = [n \in LocalNames |->
                    CASE n = "image" -> Tensor("image", <<>>, <<b>>)
                      [] n = "text" -> Tensor("text", <<>>, <<b, l>>)
                      [] n = "valid_lens" -> Tensor("valid_lens", <<>>, <<b>>)
                      [] OTHER -> None]
    /\ stages = <<>>
    /\ out = <<>>
    /\ fwpc = "encode"

FWIdle ==
    /\ cfg = [embed_dim |-> 0, gh |-> 0, gw |-> 0]
    /\ env = [n \in LocalNames |-> None]
    /\ stages = <<>>
    /\ out = <<>>
    /\ fwpc = "off"

\* line 221
FwEncode ==
    /\ fwpc = "encode"
    /\ env' = Encode(cfg, env)
    /\ stages' = stages \o <<"encoder", "quant_conv", "quantize:image">>
    /\ fwpc' = "text_encode"
    /\ UNCHANGED <<cfg, out>>
    /\ UNCHANGED nonFW

\* line 222
FwTextEncode ==
    /\ fwpc = "text_encode"
    /\ IF TextEncodeRaises(cfg)
       THEN /\ fwpc' = "raised"
            /\ stages' = stages \o <<"text_encoder", "quant_linear">>
            /\ UNCHANGED env
       ELSE /\ env' = TextEncode(cfg, env)
            /\ stages' = stages \o <<"text_encoder", "quant_linear", "quant_tf", "quantize:text">>
            /\ fwpc' = "cluster"
    /\ UNCHANGED <<cfg, out>>
    /\ UNCHANGED nonFW

\* line 224
FwCluster ==
    /\ fwpc = "cluster"
    /\ env' = ClusterCall(env)
    /\ stages' = Append(stages, "i_t_cluster")
    /\ fwpc' = "decode"
    /\ UNCHANGED <<cfg, out>>
    /\ UNCHANGED nonFW

\* line 226
FwDecode ==
    /\ fwpc = "decode"
    /\ env' = Decode(env, DecodeArg(env))
    /\ stages' = stages \o <<"post_quant_conv", "decoder", "text_decoder">>
    /\ fwpc' = "text_decode"
    /\ UNCHANGED <<cfg, out>>
    /\ UNCHANGED nonFW

\* line 227
FwTextDecode ==
    /\ fwpc = "text_decode"
    /\ IF TextDecodeRaises(TextDecodeArg(env))
       THEN /\ fwpc' = "raised"
            /\ stages' = Append(stages, "post_quant_tf")
            /\ UNCHANGED env
       ELSE /\ env' = TextDecode(env, TextDecodeArg(env))
            /\ stages' = stages \o <<"post_quant_tf", "decoder", "text_decoder">>
            /\ fwpc' = "return"
    /\ UNCHANGED <<cfg, out>>
    /\ UNCHANGED nonFW

\* line 228
FwReturn ==
    /\ fwpc = "return"
    /\ out' = Returned(env)
    /\ fwpc' = "returned"
    /\ UNCHANGED <<cfg, env, stages>>
    /\ UNCHANGED nonFW

FWNext ==
    \/ FwEncode
    \/ FwTextEncode
    \/ FwCluster
    \/ FwDecode
    \/ FwTextDecode
    \/ FwReturn

----------------------------------------------------------------------------
(* VQModel.configure_optimizers                                            *)

LossDiscriminator == <<"l","o","s","s",".","d","i","s","c","r","i","m","i","n","a","t","o","r">>

\* the codebook of the shared quantizer
CodebookName ==
    <<"q","u","a","n","t","i","z","e",".","e","m","b","e","d","d","i","n","g",".","w","e","i","g","h","t">>

\* parameter names: the codebook, a decoder weight, two parameters below
\* loss.discriminator and another parameter of the loss module
ParamNames ==
    { CodebookName,
      <<"d","e","c","o","d","e","r",".","w">>,
      LossDiscriminator \o <<".","w">>,
      LossDiscriminator \o <<"_","n","o","r","m",".","b">>,
      <<"l","o","s","s",".","p","e","r","c","e","p","t","u","a","l",".","w">> }

\* line 321 taking every parameter of the loss module for the discriminator
IsDiscriminatorParamAnyLoss(name) == StartsWith(name, <<"l","o","s","s",".">>)

\* line 321: name.startswith('loss.discriminator')
IsDiscriminatorParam(name) == StartsWith(name, LossDiscriminator)

OPInit ==
    /\ params \in
          { q \in UNION {[1..n -> [name : ParamNames, requires_grad : BOOLEAN]] :
                            n \in 0..MaxParams} :
              \A i, j \in DOMAIN q : i # j => q[i].name # q[j].name }
    /\ visited = 0
    /\ opt_vq_params = <<>>
    /\ opt_disc_params = <<>>
    /\ optimizers = <<>>
    /\ oppc = "loop"

OPIdle ==
    /\ params = <<>>
    /\ visited = 0
    /\ opt_vq_params = <<>>
    /\ opt_disc_params = <<>>
    /\ optimizers = <<>>
    /\ oppc = "off"

\* lines 318-324: the loop body for the next parameter
OpVisit ==
    /\ oppc = "loop"
    /\ visited < Len(params)
    /\ LET p == params[visited + 1]
       IN  IF p.requires_grad
           THEN IF IsDiscriminatorParam(p.name)
                THEN /\ opt_disc_params' = Append(opt_disc_params, p.name)
                     /\ UNCHANGED opt_vq_params
                ELSE /\ opt_vq_params' = Append(opt_vq_params, p.name)
                     /\ UNCHANGED opt_disc_params
           ELSE UNCHANGED <<opt_vq_params, opt_disc_params>>
    /\ visited' = visited + 1
    /\ UNCHANGED <<params, optimizers, oppc>>
    /\ UNCHANGED nonOP

\* lines 326-329: the two Adam optimizers are built and returned;
\* torch.optim.Adam raises ValueError when given an empty parameter list
OpReturn ==
    /\ oppc = "loop"
    /\ visited = Len(params)
    /\ IF opt_vq_params = <<>> \/ opt_disc_params = <<>>
       THEN /\ oppc' = "raised"
            /\ UNCHANGED optimizers
       ELSE /\ optimizers' = <<opt_vq_params, opt_disc_params>>
            /\ oppc' = "done"
    /\ UNCHANGED <<params, visited, opt_vq_params, opt_disc_params>>
    /\ UNCHANGED nonOP

\* the modules freeze is given, by the prefix their parameters have in
\* self.named_parameters(): self, a child, a child of self.loss
FreezeTargets ==
    { <<>>,
      <<"q","u","a","n","t","i","z","e",".">>,
      <<"d","e","c","o","d","e","r",".">>,
      <<"l","o","s","s",".">>,
      LossDiscriminator \o <<".">> }

\* lines 288-290: freeze(module), called before the loop of
\* configure_optimizers (where lines 295-312 have it) or after the call
OpFreeze ==
    /\ \/ oppc = "loop" /\ visited = 0
       \/ oppc \in {"done", "raised"}
    /\ \E module \in FreezeTargets :
          params' = [i \in DOMAIN params |->
                        IF StartsWith(params[i].name, module)
                        THEN [params[i] EXCEPT !.requires_grad = FALSE]
                        ELSE params[i]]
    /\ UNCHANGED <<visited, opt_vq_params, opt_disc_params, optimizers, oppc>>
    /\ UNCHANGED nonOP

OPNext ==
    \/ OpVisit
    \/ OpReturn
    \/ OpFreeze

----------------------------------------------------------------------------
(* Specifications                                                          *)

\* calls of download_pretrained_from_url on one url and cache directory
InitDL == DLInit /\ CTIdle /\ CVIdle /\ FWIdle /\ OPIdle
SpecDL == InitDL /\ [][DLNext]_vars

\* one call of init_from_ct_ckpt, on any state of the cache
InitCT == DLInit /\ url = CtUrl /\ CTInit /\ CVIdle /\ FWIdle /\ OPIdle
SpecCT == InitCT /\ [][CTNext]_vars

\* convert_to_custom_text_state_dict applied again and again
InitCV == DLIdle /\ CTIdle /\ CVInit /\ FWIdle /\ OPIdle
SpecCV == InitCV /\ [][CVNext]_vars

\* one call of VQModel.forward
InitFW == DLIdle /\ CTIdle /\ CVIdle /\ FWInit /\ OPIdle
SpecFW == InitFW /\ [][FWNext]_vars

\* one call of VQModel.configure_optimizers
InitOP == DLIdle /\ CTIdle /\ CVIdle /\ FWIdle /\ OPInit
SpecOP == InitOP /\ [][OPNext]_vars

----------------------------------------------------------------------------
(* Claims about download_pretrained_from_url                               *)

\* the url names an expected digest
Derivable(u) == ExpectedSha256(u) # <<>>

\* C1: for a url that names an expected digest, a call returns only when a
\* regular file whose digest matches is at download_target (so a fresh
\* download that does not match raises), and the url is opened only when
\* the call found the file missing or mismatched.
C1_ReturnsOnlyVerifiedFile ==
    Derivable(url) =>
        /\ (pc = "idle" /\ log[2].outcome = "returned")
              => /\ entry.kind = "file"
                 /\ StartsWith(Sha256Hex(entry.content), ExpectedSha256(url))
        /\ \A i \in DOMAIN log :
              log[i].opened
                  => \/ log[i].kind0 = "none"
                     \/ log[i].kind0 = "file" /\ ~log[i].match0
        /\ (pc \in {"openfile", "tqdm", "loop", "verify"})
              => \/ cur.kind0 = "none"
                 \/ cur.kind0 = "file" /\ ~cur.match0

\* C1 witness: a call found a mismatched file, downloaded and returned.
C1_Witness ==
    /\ Derivable(url)
    /\ pc = "idle"
    /\ log[2].outcome = "returned"
    /\ log[2].opened
    /\ log[2].kind0 = "file"

\* C2 as stated: whenever the first of two calls made one after the other
\* returns, the two calls open the url exactly once in total.
C2_ExactlyOneDownload ==
    (log[1].outcome = "returned" /\ log[2].outcome # "none")
        => Cardinality({i \in DOMAIN log : log[i].opened}) = 1

\* C2 amended: a call that follows a call that returned finds the file in
\* the cache, returns it, and neither opens the url nor rewrites the file;
\* the first of the two opened the url exactly when it found no file, or a
\* file whose digest does not match the digest the url names, so the two
\* open it at most once.
C2_SecondCallShortCircuits ==
    (log[1].outcome = "returned" /\ log[2].outcome # "none")
        => /\ log[2].outcome = "returned"
           /\ ~log[2].opened
           /\ ~log[2].wrote
           /\ log[2].kind0 = "file"
           /\ log[2].match0
           /\ entry.kind = "file"
           /\ log[1].opened <=> (log[1].kind0 = "none" \/ ~log[1].match0)

\* C2 witness: the first call downloaded and returned, the second returned.
C2_Witness ==
    /\ log[1].outcome = "returned"
    /\ log[1].opened
    /\ log[2].outcome = "returned"

\* C3: a call that finds the file a stopped download left behind opens the
\* url again, so that file is never returned as it is, whatever the url.
C3_PartialFileRedownloaded ==
    \A i \in DOMAIN log : log[i].partial0 => log[i].opened

\* C3, for the urls that name a digest only: there the left-over file is
\* found mismatched and the url is opened again.
C3_PartialFileRedownloadedWhenHashed ==
    Derivable(url) => \A i \in DOMAIN log : log[i].partial0 => log[i].opened

\* C4: a call that finds download_target existing and no regular file
\* raises without opening the url or opening the target for writing, and
\* the entry stays as it was.
C4_NotRegularFileIsFatal ==
    /\ \A i \in DOMAIN log :
          (log[i].kind0 = "dir")
              => /\ log[i].outcome = "raised"
                 /\ ~log[i].opened
                 /\ ~log[i].wrote
                 /\ entry = Directory
    /\ (pc \in {"urlopen", "openfile", "tqdm", "loop", "verify"})
          => cur.kind0 # "dir"

\* C4 witness: a call on a target that is a directory has ended.
C4_Witness ==
    log[2].kind0 = "dir" /\ log[2].outcome = "raised"

----------------------------------------------------------------------------
(* Claims about load_state_dict and init_from_ct_ckpt                      *)

ModuleDot == Module \o <<".">>

\* C5: load_state_dict gives a checkpoint whose keys all carry `module.`
\* the mapping it has without the prefix, and leaves every key that does
\* not carry `module.` as it is, with its tensor.
C5_StripsOnlyModulePrefix ==
    (ctpc \in {"detect", "resize", "resize_raised", "load", "done"}) =>
        LET raw == Unwrap(ckpt)
        IN  /\ (\A i \in DOMAIN raw : StartsWith(raw[i].k, ModuleDot))
                  => loaded = [i \in DOMAIN raw |->
                                  [k |-> DropFirst(raw[i].k, Len(ModuleDot)),
                                   v |-> raw[i].v]]
            /\ \A i \in DOMAIN raw :
                  ~StartsWith(raw[i].k, ModuleDot)
                      => /\ HasKey(loaded, raw[i].k)
                         /\ Get(loaded, raw[i].k) = raw[i].v

\* the loaded checkpoint holds a position embedding in the flat layout
HoldsPosEmbed(d) == HasKey(d, PositionalEmbedding)

\* the key the position embedding has once init_from_ct_ckpt has decided on
\* the layout: namespaced when the flat layout was migrated
PosEmbedKeyAfterMigration ==
    IF ~hasPosAttr /\ HasKey(loaded, TextProjection)
    THEN TextDot \o PositionalEmbedding
    ELSE PositionalEmbedding

\* C6: for every loaded checkpoint that holds a position embedding, also
\* one in the flat layout that is migrated, resize_pos_embed does not raise, and the state dict that reaches
\* model.load_state_dict holds the position embedding under the key of the
\* layout in use, with pos_embed_width as its width.
C6_PosEmbedResizedUnderLayoutKey ==
    (HoldsPosEmbed(loaded) /\ ctpc \in {"resize_raised", "load", "done"}) =>
        /\ ctpc # "resize_raised"
        /\ HasKey(sd, PosEmbedKeyAfterMigration)
        /\ LET shape == Get(sd, PosEmbedKeyAfterMigration).shape
           IN  Len(shape) = 2 /\ shape[1] = posEmbedWidth

----------------------------------------------------------------------------
(* Claims about convert_to_custom_text_state_dict                          *)

\* the renaming C9 describes
C9_Renamed(k) ==
    IF \/ StartsWith(k, TextProjection)
       \/ StartsWith(k, PositionalEmbedding)
       \/ StartsWith(k, TokenEmbedding)
       \/ StartsWith(k, Transformer)
       \/ StartsWith(k, LnFinal)
    THEN <<"t","e","x","t",".">> \o k
    ELSE k

\* C9 as stated: with the sentinel the migration renames entry by entry,
\* keeping each value and the number of entries; without it the mapping is
\* returned as it is; a second migration changes nothing.
C9_MigrationKeepsEveryEntry ==
    (Len(mig) >= 2) =>
        LET d == mig[1]
            r == mig[2]
        IN  /\ HasKey(d, TextProjection)
                  => r = [i \in DOMAIN d |-> [k |-> C9_Renamed(d[i].k), v |-> d[i].v]]
            /\ ~HasKey(d, TextProjection) => r = d
            /\ Len(mig) >= 3 => mig[3] = mig[2]

\* C9 amended: with the sentinel the result holds exactly the renamed keys,
\* in the order of their first entry, each with the value of the last entry
\* renamed to it; so every entry is kept with its value unless the mapping
\* already holds the key another entry is renamed to, and then the two
\* become one. Without the sentinel the mapping is returned as it is, and a
\* second migration changes nothing.
C9_MigrationRenamesAndMerges ==
    (Len(mig) >= 2) =>
        LET d == mig[1]
            r == mig[2]
            LastFor(k) == CHOOSE i \in DOMAIN d :
                             /\ C9_Renamed(d[i].k) = k
                             /\ \A j \in DOMAIN d : C9_Renamed(d[j].k) = k => j <= i
            FirstFor(k) == CHOOSE i \in DOMAIN d :
                             /\ C9_Renamed(d[i].k) = k
                             /\ \A j \in DOMAIN d : C9_Renamed(d[j].k) = k => i <= j
        IN  /\ HasKey(d, TextProjection) =>
                  /\ Keys(r) = {C9_Renamed(d[i].k) : i \in DOMAIN d}
                  /\ Len(r) = Cardinality(Keys(r))
                  /\ \A i \in DOMAIN r : r[i].v = d[LastFor(r[i].k)].v
                  /\ \A i, j \in DOMAIN r :
                        i < j => FirstFor(r[i].k) < FirstFor(r[j].k)
                  /\ (\A i, j \in DOMAIN d :
                         i # j => C9_Renamed(d[i].k) # C9_Renamed(d[j].k))
                        => r = [i \in DOMAIN d |->
                                   [k |-> C9_Renamed(d[i].k), v |-> d[i].v]]
            /\ ~HasKey(d, TextProjection) => r = d
            /\ Len(mig) >= 3 => mig[3] = mig[2]

\* C9 witness: a mapping with the sentinel, a legacy key and the namespaced
\* key it is renamed to has been migrated twice.
C9_Witness ==
    /\ Len(mig) = 3
    /\ HasKey(mig[1], TextProjection)
    /\ Len(mig[2]) < Len(mig[1])
    /\ \E i \in DOMAIN mig[1] : C9_Renamed(mig[1][i].k) = mig[1][i].k

----------------------------------------------------------------------------
(* Claims about VQModel.forward                                            *)

\* the modules of one forward pass, in the order of the four stages
ForwardStages ==
    <<"encoder", "quant_conv", "quantize:image",
      "text_encoder", "quant_linear", "quant_tf", "quantize:text",
      "i_t_cluster",
      "post_quant_conv", "decoder", "text_decoder",
      "post_quant_tf", "decoder", "text_decoder">>

\* C7: a forward pass goes through image encoding, text encoding conditioned
\* on the image latent, the quantization of each, the cluster and the two
\* decodes in this order and skips none; what it returns are the four
\* reconstructions and the four losses, the image branch decoded from the
\* cluster's co-quantized image and the text branch from the plain
\* quantized text.
C7_ForwardStagesAndOutputs ==
    /\ Len(stages) <= Len(ForwardStages)
    /\ stages = SubSeq(ForwardStages, 1, Len(stages))
    /\ fwpc = "returned" =>
          /\ stages = ForwardStages
          /\ [i \in DOMAIN out |-> out[i].name]
                = <<"i2i_rec", "i2t_rec", "image_quant_loss", "t2t_rec", "t2i_rec",
                    "text_quant_loss", "i_coquant_loss", "t_coquant_loss">>
          /\ out[1].from = <<"image_coquant">>
          /\ out[2].from = <<"image_coquant">>
          /\ out[4].from = <<"text_quant">>
          /\ out[5].from = <<"text_quant">>
          /\ env["image_coquant"].from = <<"image_quant", "text_quant", "mask", "valid_lens">>
          /\ env["text_quant"].from = <<"text_hidden">>
          /\ env["text_hidden"].from = <<"text", "valid_lens", "image_hidden">>
          /\ env["image_quant"].from = <<"image_hidden">>

\* C7 witness: forward has returned.
C7_Witness == fwpc = "returned" /\ Len(out) = 8

\* C8 as stated: the quantized text has as many positions as the tokenized
\* text, whatever the latent grid.
C8_TextQuantHasContextLength ==
    env["text_quant"] # None => env["text_quant"].shape[2] = env["text"].shape[2]

\* C8 amended: the quantized text has one position per cell of the image
\* latent grid, H' * W', and so as many as the tokenized text only when the
\* two numbers are equal.
C8_TextQuantHasGridLength ==
    env["text_quant"] # None =>
        /\ env["text_quant"].shape = <<env["text"].shape[1], cfg.gh * cfg.gw, cfg.embed_dim>>
        /\ (env["text_quant"].shape[2] = env["text"].shape[2])
              <=> (cfg.gh * cfg.gw = env["text"].shape[2])

\* C8 witness: text_encode has returned for a grid with fewer cells than
\* the text has tokens.
C8_Witness ==
    /\ env["text_quant"] # None
    /\ cfg.gh * cfg.gw < env["text"].shape[2]

----------------------------------------------------------------------------
(* Claims about VQModel.configure_optimizers                               *)

Occurrences(seq, x) == Cardinality({i \in DOMAIN seq : seq[i] = x})

\* the optimizers hold the trainable parameters, each once: those named
\* loss.discriminator... the second, all others the first; the parameters
\* with requires_grad unset are in neither
C10_Partitioned ==
    /\ Len(optimizers) = 2
    /\ \A i \in DOMAIN params :
          LET name == params[i].name
              inVq == Occurrences(optimizers[1], name)
              inDisc == Occurrences(optimizers[2], name)
          IN  IF ~params[i].requires_grad
              THEN inVq = 0 /\ inDisc = 0
              ELSE IF StartsWith(name, <<"l","o","s","s",".","d","i","s","c","r","i","m","i","n","a","t","o","r">>)
              THEN inVq = 0 /\ inDisc = 1
              ELSE inVq = 1 /\ inDisc = 0
    /\ \A k \in 1..2 : \A j \in DOMAIN optimizers[k] :
          \E i \in DOMAIN params : params[i].name = optimizers[k][j]

\* C10: when configure_optimizers returns, of the parameters with
\* requires_grad set, those named loss.discriminator... are given to the
\* second optimizer only, once, and all others, the codebook among them, to
\* the first only, once; the parameters with requires_grad unset are given
\* to neither.
C10_OptimizersPartitionTrainable ==
    [][(oppc = "loop" /\ oppc' = "done") => C10_Partitioned']_vars

\* C10 witness: the optimizers were built for a model with a trainable
\* codebook, a trainable discriminator parameter and a frozen parameter.
C10_Witness ==
    /\ oppc = "done"
    /\ C10_Partitioned
    /\ \E i \in DOMAIN params : params[i].name = CodebookName /\ params[i].requires_grad
    /\ \E i \in DOMAIN params :
          StartsWith(params[i].name, LossDiscriminator) /\ params[i].requires_grad
    /\ \E i \in DOMAIN params : ~params[i].requires_grad

====
